---------------------------- MODULE Spec2Model ----------------------------
(***************************************************************************)
(* Model of the composition layer of bedrock-access-gateway:               *)
(*   src/src/api/setting.py  configuration resolved from the environment   *)
(*   src/src/app.py          application assembly, request logging,        *)
(*                           validation interception, entry points         *)
(*                                                                         *)
(* Python strings are sequences of one-character strings, so that          *)
(* str.lower() and comparison with a literal are computed, not assumed.    *)
(* URL paths are sequences of path segments: "/api/v1" is <<"api", "v1">>. *)
(***************************************************************************)
EXTENDS Integers, Sequences, FiniteSets, TLC

VARIABLES
    environ,      \* os.environ at interpreter start: a dict, key -> string
    setting,      \* namespace of module api.setting; <<>> until imported
    apps,         \* every FastAPI instance constructed so far, in order
    sys_modules,  \* module name -> index in apps of the instance it built
    served,       \* index in apps of the instance answering requests; 0 = none
    requests,     \* request id -> the request's progress through the stack
    log           \* records handed to the logging module, in emission order

vars == <<environ, setting, apps, sys_modules, served, requests, log>>

settingVars == <<environ, setting>>
appVars == <<apps, sys_modules, served, requests, log>>

(***************************************************************************)
(* Bounds of the model.                                                    *)
(***************************************************************************)
\* Longest environment value enumerated over Alphabet (longer named values
\* are listed in NamedValues).
MaxLen == 2
\* Most environment variables set at once.
MaxEnvVars == 1
\* Requests admitted over a run of Spec, each drawn from every method and
\* path; they are handled concurrently.
MaxRequests == 1
\* Requests in flight at once in SpecConcurrent.
MaxConcurrent == 2
\* time.time() readings are drawn from 0 .. MaxTime.
MaxTime == 1

(***************************************************************************)
(* api/setting.py                                                          *)
(***************************************************************************)
API_ROUTE_PREFIX == <<"api", "v1">>

AZURE_API_ROUTE_PREFIX == <<"openai", "deployments", "kiku-deployment">>

FalseLiteral == <<"f", "a", "l", "s", "e">>

AWS_REGION_default == <<"u", "s", "-", "w", "e", "s", "t", "-", "2">>

DEFAULT_MODEL_default ==
    <<"a", "n", "t", "h", "r", "o", "p", "i", "c", ".", "c", "l", "a", "u",
      "d", "e", "-", "3", "-", "5", "-", "s", "o", "n", "n", "e", "t", "-",
      "2", "0", "2", "4", "0", "6", "2", "0", "-", "v", "1", ":", "0">>

DEFAULT_EMBEDDING_MODEL_default ==
    <<"c", "o", "h", "e", "r", "e", ".", "e", "m", "b", "e", "d", "-", "m",
      "u", "l", "t", "i", "l", "i", "n", "g", "u", "a", "l", "-", "v", "3">>

StringSettings == {"AWS_REGION", "DEFAULT_MODEL", "DEFAULT_EMBEDDING_MODEL"}

EnvKeys == StringSettings \cup {"DEBUG"}

\* The second argument of each os.environ.get call.
GetDefault(key) ==
    CASE key = "DEBUG" -> FalseLiteral
      [] key = "AWS_REGION" -> AWS_REGION_default
      [] key = "DEFAULT_MODEL" -> DEFAULT_MODEL_default
      [] key = "DEFAULT_EMBEDDING_MODEL" -> DEFAULT_EMBEDDING_MODEL_default

UpperCase ==
    <<"A", "B", "C", "D", "E", "F", "G", "H", "I", "J", "K", "L", "M", "N",
      "O", "P", "Q", "R", "S", "T", "U", "V", "W", "X", "Y", "Z">>

LowerCase ==
    <<"a", "b", "c", "d", "e", "f", "g", "h", "i", "j", "k", "l", "m", "n",
      "o", "p", "q", "r", "s", "t", "u", "v", "w", "x", "y", "z">>

LowerChar(c) ==
    IF \E i \in 1..26 : UpperCase[i] = c
    THEN LowerCase[CHOOSE i \in 1..26 : UpperCase[i] = c]
    ELSE c

\* A plausible slip: the comparison made case-sensitive.
LowerIdentity(s) == s

\* str.lower() (ASCII letters; other characters are unchanged).
Lower(s) == [i \in 1..Len(s) |-> LowerChar(s[i])]

\* A plausible slip: an empty value treated like a missing one
\* (os.environ.get(key) or default).
EnvironGetOrDefault(env, key, default) ==
    IF key \in DOMAIN env /\ env[key] # <<>> THEN env[key] ELSE default

\* os.environ.get(key, default): the default is used only when key is missing.
EnvironGet(env, key, default) ==
    IF key \in DOMAIN env THEN env[key] ELSE default

\* DEBUG = os.environ.get("DEBUG", "false").lower() != "false"
DEBUG(env) == Lower(EnvironGet(env, "DEBUG", GetDefault("DEBUG"))) # FalseLiteral

AWS_REGION(env) == EnvironGet(env, "AWS_REGION", GetDefault("AWS_REGION"))

DEFAULT_MODEL(env) == EnvironGet(env, "DEFAULT_MODEL", GetDefault("DEFAULT_MODEL"))

DEFAULT_EMBEDDING_MODEL(env) ==
    EnvironGet(env, "DEFAULT_EMBEDDING_MODEL", GetDefault("DEFAULT_EMBEDDING_MODEL"))

\* The module body of api/setting.py, run once by the first import.
SettingModule(env) ==
    [DEBUG |-> DEBUG(env),
     AWS_REGION |-> AWS_REGION(env),
     DEFAULT_MODEL |-> DEFAULT_MODEL(env),
     DEFAULT_EMBEDDING_MODEL |-> DEFAULT_EMBEDDING_MODEL(env)]

(***************************************************************************)
(* Environment values the model enumerates.                                *)
(***************************************************************************)
Alphabet == {"f", "F", " "}

RECURSIVE SeqsUpTo(_, _)
SeqsUpTo(S, n) ==
    IF n = 0 THEN {<<>>}
    ELSE LET shorter == SeqsUpTo(S, n - 1)
         IN  shorter \cup {Append(s, c) : s \in shorter, c \in S}

NamedValues ==
    { FalseLiteral,
      <<"F", "A", "L", "S", "E">>,
      <<"F", "a", "l", "s", "e">>,
      <<"f", "a", "l", "s", "E">>,
      <<" ", "f", "a", "l", "s", "e">>,
      <<"f", "a", "l", "s", "e", " ">>,
      <<"t", "r", "u", "e">>,
      <<"T", "R", "U", "E">>,
      <<"n", "o">>,
      <<"0">>,
      <<"1">>,
      <<"u", "s", "-", "e", "a", "s", "t", "-", "1">>,
      AWS_REGION_default,
      DEFAULT_MODEL_default,
      DEFAULT_EMBEDDING_MODEL_default }

EnvValues == SeqsUpTo(Alphabet, MaxLen) \cup NamedValues

SettingLoaded == DOMAIN setting # {}

\* The launcher sets a variable in the process environment before Python
\* starts.
Putenv(key, value) ==
    /\ ~SettingLoaded
    /\ key \notin DOMAIN environ
    /\ Cardinality(DOMAIN environ) < MaxEnvVars
    /\ environ' = [k \in DOMAIN environ \cup {key} |->
                     IF k = key THEN value ELSE environ[k]]
    /\ UNCHANGED <<setting, appVars>>

\* First import of api.setting: the module body runs against os.environ.
ImportSetting ==
    /\ ~SettingLoaded
    /\ setting' = SettingModule(environ)
    /\ UNCHANGED <<environ, appVars>>

InitSetting ==
    /\ environ = <<>>
    /\ setting = <<>>

InitAppIdle ==
    /\ apps = <<>>
    /\ sys_modules = <<>>
    /\ served = 0
    /\ requests = <<>>
    /\ log = <<>>

\* Nothing is set, imported or started.
Init == InitSetting /\ InitAppIdle

NextSetting ==
    \/ \E key \in EnvKeys, value \in EnvValues : Putenv(key, value)
    \/ ImportSetting

SpecSetting == Init /\ [][NextSetting]_vars

(***************************************************************************)
(* The routers of api/routers (model, chat, embeddings).  Each is a list   *)
(* of routes relative to the prefix it is mounted under.  The handlers are *)
(* external collaborators: what one does with a request is the request's   *)
(* `kind`:                                                                 *)
(*   "valid"      the body passes the schema and the handler returns       *)
(*   "malformed"  the body fails the request schema                        *)
(*   "rejected"   the router answers with an HTTP error (HTTPException)    *)
(*   "fault"      the handler raises an exception nothing handles          *)
(***************************************************************************)
Kinds == {"valid", "malformed", "rejected", "fault"}

\* The methods of the requests enumerated.  (A CORS preflight, an OPTIONS
\* request that CORSMiddleware answers itself, is not among them.)
Methods == {"GET", "POST"}

model_router ==
    << [path |-> <<"models">>, methods |-> {"GET"}, endpoint |-> "model"] >>

embeddings_router ==
    << [path |-> <<"embeddings">>, methods |-> {"POST"},
        endpoint |-> "embeddings"] >>

chat_router ==
    << [path |-> <<"chat", "completions">>, methods |-> {"POST"},
        endpoint |-> "chat"] >>

\* The endpoints whose request body is checked against a schema.
BodyEndpoints == {"chat", "embeddings"}

\* The errors a RequestValidationError carries: never an empty list.
ValidationErrors(endpoint) == << "body", endpoint, "field required" >>

\* What a router's endpoint does with a request of the given kind.  An
\* endpoint that takes no body has nothing to find malformed.
RouterEndpoint(endpoint, kind) ==
    CASE kind = "malformed" /\ endpoint \in BodyEndpoints ->
            [raised |-> "RequestValidationError", status |-> 0,
             media |-> "", body |-> ValidationErrors(endpoint), ran |-> FALSE]
      [] kind = "rejected" ->
            [raised |-> "HTTPException", status |-> 401,
             media |-> "", body |-> <<"Unauthorized">>, ran |-> FALSE]
      [] kind = "fault" ->
            [raised |-> "Exception", status |-> 0,
             media |-> "", body |-> <<"backend failure">>, ran |-> TRUE]
      [] OTHER ->
            [raised |-> "", status |-> 200, media |-> "application/json",
             body |-> <<"{", endpoint, "result", "}">>, ran |-> TRUE]

(***************************************************************************)
(* app.py: the application object and its assembly.                        *)
(***************************************************************************)
\* FastAPI(**config): no user middleware, no user routes, the framework's
\* own handlers for HTTPException and RequestValidationError.  (The
\* framework's documentation routes are left out: no path of Paths is one.)
FastAPI ==
    [user_middleware |-> <<>>,
     routes |-> <<>>,
     exception_handlers |->
        [cls \in {"HTTPException", "RequestValidationError"} |->
            IF cls = "HTTPException" THEN "http_exception_handler"
            ELSE "request_validation_exception_handler"]]

\* app.add_middleware / @app.middleware("http"): the newest is outermost.
add_middleware(app, middleware) ==
    [app EXCEPT !.user_middleware = <<middleware>> \o @]

\* app.include_router(router, prefix=prefix)
include_router(app, router, prefix) ==
    [app EXCEPT !.routes =
        @ \o [i \in 1..Len(router) |->
                [router[i] EXCEPT !.path = prefix \o @]]]

\* @app.get(path)
get(app, path, endpoint) ==
    [app EXCEPT !.routes =
        Append(@, [path |-> path, methods |-> {"GET"}, endpoint |-> endpoint])]

\* @app.exception_handler(cls)
exception_handler(app, cls, handler) ==
    [app EXCEPT !.exception_handlers[cls] = handler]

\* A plausible slip: chat also mounted at the bare root, like embeddings.
RoutersWithChatAtRoot(app) ==
    include_router(
    include_router(
    include_router(
    include_router(
    include_router(
    include_router(
    include_router(app,
        model_router, <<>>),
        embeddings_router, <<>>),
        chat_router, <<>>),
        embeddings_router, API_ROUTE_PREFIX),
        embeddings_router, AZURE_API_ROUTE_PREFIX),
        chat_router, API_ROUTE_PREFIX),
        chat_router, AZURE_API_ROUTE_PREFIX)

\* A plausible slip: the Azure-style embeddings binding forgotten.
RoutersWithoutAzureEmbeddings(app) ==
    include_router(
    include_router(
    include_router(
    include_router(
    include_router(app,
        model_router, <<>>),
        embeddings_router, <<>>),
        embeddings_router, API_ROUTE_PREFIX),
        chat_router, API_ROUTE_PREFIX),
        chat_router, AZURE_API_ROUTE_PREFIX)

\* A plausible slip: the Azure-style prefix written with a path parameter.
RoutersWithDeploymentParameter(app) ==
    include_router(
    include_router(
    include_router(
    include_router(
    include_router(
    include_router(app,
        model_router, <<>>),
        embeddings_router, <<>>),
        embeddings_router, API_ROUTE_PREFIX),
        embeddings_router, <<"openai", "deployments", "{deployment_id}">>),
        chat_router, API_ROUTE_PREFIX),
        chat_router, <<"openai", "deployments", "{deployment_id}">>)

\* The six include_router calls, in source order.
IncludeRouters(app) ==
    include_router(
    include_router(
    include_router(
    include_router(
    include_router(
    include_router(app,
        model_router, <<>>),
        embeddings_router, <<>>),
        embeddings_router, API_ROUTE_PREFIX),
        embeddings_router, AZURE_API_ROUTE_PREFIX),
        chat_router, API_ROUTE_PREFIX),
        chat_router, AZURE_API_ROUTE_PREFIX)

\* A plausible slip: the RequestValidationError handler never registered.
ModuleBodyWithoutHandler ==
    get(IncludeRouters(
            add_middleware(add_middleware(FastAPI, "CORSMiddleware"),
                           "log_requests")),
        <<"health">>, "health")

\* The module body of app.py up to the entry points: the instance one
\* execution of the module builds.
ModuleBody ==
    exception_handler(
        get(IncludeRouters(
                add_middleware(add_middleware(FastAPI, "CORSMiddleware"),
                               "log_requests")),
            <<"health">>, "health"),
        "RequestValidationError", "validation_exception_handler")

(***************************************************************************)
(* Dispatch of one request by an application: router, endpoint, exception  *)
(* handlers.                                                               *)
(***************************************************************************)
\* A path segment of a route that is a parameter matches any segment.
PathParams == {"{deployment_id}"}

SegmentMatches(pattern, segment) ==
    pattern \in PathParams \/ pattern = segment

PathMatches(pattern, path) ==
    /\ Len(pattern) = Len(path)
    /\ \A i \in 1..Len(path) : SegmentMatches(pattern[i], path[i])

\* Route.matches: the path decides NONE, the method FULL or PARTIAL.
Matches(route, method, path) ==
    IF ~PathMatches(route.path, path) THEN "NONE"
    ELSE IF method \in route.methods THEN "FULL"
    ELSE "PARTIAL"

\* The router walks app.routes in registration order: the first full match
\* wins, else the first partial match, else nothing matches (index 0).
Route(app, method, path) ==
    LET full == {i \in 1..Len(app.routes) :
                    Matches(app.routes[i], method, path) = "FULL"}
        partial == {i \in 1..Len(app.routes) :
                    Matches(app.routes[i], method, path) = "PARTIAL"}
        First(S) == CHOOSE i \in S : \A j \in S : i <= j
    IN  IF full # {} THEN [index |-> First(full), match |-> "FULL"]
        ELSE IF partial # {} THEN [index |-> First(partial), match |-> "PARTIAL"]
        ELSE [index |-> 0, match |-> "NONE"]

\* A plausible slip: the probe reporting a failure.
healthDown ==
    [raised |-> "", status |-> 503, media |-> "application/json",
     body |-> <<"{", "status", ":", "DOWN", "}">>, ran |-> TRUE]

\* async def health(): return {"status": "OK"}
health ==
    [raised |-> "", status |-> 200, media |-> "application/json",
     body |-> <<"{", "status", ":", "OK", "}">>, ran |-> TRUE]

\* The outcome of the routed endpoint, tagged with the endpoint the router
\* chose ("" when no route matches the path).
Dispatch(app, method, path, kind) ==
    LET m == Route(app, method, path)
        endpoint == IF m.index = 0 THEN "" ELSE app.routes[m.index].endpoint
        outcome ==
            CASE m.match = "NONE" ->
                    [raised |-> "HTTPException", status |-> 404, media |-> "",
                     body |-> <<"Not Found">>, ran |-> FALSE]
              [] m.match = "PARTIAL" ->
                    [raised |-> "HTTPException", status |-> 405, media |-> "",
                     body |-> <<"Method Not Allowed">>, ran |-> FALSE]
              [] m.match = "FULL" /\ endpoint = "health" -> health
              [] OTHER -> RouterEndpoint(endpoint, kind)
    IN  [endpoint |-> endpoint, raised |-> outcome.raised,
         status |-> outcome.status, media |-> outcome.media,
         body |-> outcome.body, ran |-> outcome.ran]

\* str() of a list of errors.
Str(errors) == <<"[">> \o errors \o <<"]">>

\* PlainTextResponse(str(exc), status_code=400)
validation_exception_handler(exc) ==
    [status |-> 400, media |-> "text/plain", body |-> Str(exc.body)]

\* The framework's own handler of RequestValidationError: a JSON envelope.
request_validation_exception_handler(exc) ==
    [status |-> 422, media |-> "application/json",
     body |-> <<"{", "detail", ":">> \o exc.body \o <<"}">>]

\* The framework's handler of HTTPException: a JSON envelope, its status.
http_exception_handler(exc) ==
    [status |-> exc.status, media |-> "application/json",
     body |-> <<"{", "detail", ":">> \o exc.body \o <<"}">>]

\* The handler of app.exception_handlers that takes the raised exception,
\* "" when the endpoint returned or when no handler is registered for it.
HandlerFor(app, outcome) ==
    IF outcome.raised \in DOMAIN app.exception_handlers
    THEN app.exception_handlers[outcome.raised]
    ELSE ""

\* What call_next(request) gives log_requests: the response of the endpoint
\* or of the exception handler that took its exception; `raised` stays set
\* when the exception propagates.  CORSMiddleware passes the request and the
\* response's status and body through.
Downstream(app, method, path, kind) ==
    LET outcome == Dispatch(app, method, path, kind)
        handler == HandlerFor(app, outcome)
        response ==
            CASE handler = "validation_exception_handler" ->
                    validation_exception_handler(outcome)
              [] handler = "request_validation_exception_handler" ->
                    request_validation_exception_handler(outcome)
              [] handler = "http_exception_handler" ->
                    http_exception_handler(outcome)
              [] OTHER ->
                    [status |-> outcome.status, media |-> outcome.media,
                     body |-> outcome.body]
    IN  [endpoint |-> outcome.endpoint,
         ran |-> outcome.ran,
         exception |-> outcome.raised,
         handler |-> handler,
         raised |-> IF handler = "" THEN outcome.raised ELSE "",
         response |-> response]

(***************************************************************************)
(* Entry points.                                                           *)
(***************************************************************************)
\* One execution of app.py's module body under the given module name: a new
\* FastAPI instance, and handler = Mangum(app) around that same instance.
ExecModule(instances, modules, name) ==
    [apps |-> Append(instances, ModuleBody),
     sys_modules |->
        [n \in DOMAIN modules \cup {name} |->
            IF n = name
            THEN [app |-> Len(instances) + 1, handler |-> Len(instances) + 1]
            ELSE modules[n]]]

\* Function-as-a-service start: the runtime imports module app and calls
\* app.handler, the Mangum adapter, for every event.
LambdaStart ==
    /\ served = 0
    /\ LET loaded == ExecModule(apps, sys_modules, "app")
       IN  /\ apps' = loaded.apps
           /\ sys_modules' = loaded.sys_modules
           /\ served' = loaded.sys_modules["app"].handler
    /\ UNCHANGED <<settingVars, requests, log>>

\* python app.py: the file runs as module __main__, and its last statement,
\* uvicorn.run("app:app", ...), imports module app by name.  sys.modules
\* holds the running file as __main__ only, so the import executes the file
\* again, and the server answers with that second module's app.  (With
\* reload=True the import happens in a worker process the reloader spawns.)
MainStart ==
    /\ served = 0
    /\ LET main == ExecModule(apps, sys_modules, "__main__")
           loaded == ExecModule(main.apps, main.sys_modules, "app")
       IN  /\ apps' = loaded.apps
           /\ sys_modules' = loaded.sys_modules
           /\ served' = loaded.sys_modules["app"].app
    /\ UNCHANGED <<settingVars, requests, log>>

(***************************************************************************)
(* One request through log_requests.                                       *)
(***************************************************************************)
\* The prefixes a client may try: the three conventions and a deployment of
\* another name.
Prefixes ==
    { <<>>, API_ROUTE_PREFIX, AZURE_API_ROUTE_PREFIX,
      <<"openai", "deployments", "other-deployment">> }

Paths ==
    { prefix \o sub :
        prefix \in Prefixes,
        sub \in { <<"chat", "completions">>, <<"embeddings">> } }
    \cup { <<"models">>, <<"health">> }

\* The answer of the framework's outermost layer to an exception that
\* reaches it.
InternalServerError ==
    [status |-> 500, media |-> "text/plain",
     body |-> <<"Internal Server Error">>]

NoResponse == [status |-> 0, media |-> "", body |-> <<>>]

\* time.time(): the wall clock, which may be set back between two readings.
Times == 0..MaxTime

Middleware(app) == {app.user_middleware[i] : i \in 1..Len(app.user_middleware)}

\* A plausible slip: the record written on entry, before the dispatch.
LogRequestsBeginLoggingFirst(method, path, now) ==
    /\ served # 0
    /\ "log_requests" \in Middleware(apps[served])
    /\ requests' = Append(requests,
            [method |-> method, path |-> path,
             pc |-> "call_next", start_time |-> now,
             endpoint |-> "", ran |-> FALSE, exception |-> "",
             response |-> NoResponse])
    /\ log' = Append(log,
          [level |-> "INFO", logger |-> "app", rid |-> Len(requests) + 1,
           message |-> [method |-> method, path |-> path,
                        status |-> 0, took |-> 0]])
    /\ UNCHANGED <<settingVars, apps, sys_modules, served>>

\* log_requests up to its await: the request enters the middleware, which
\* reads the clock and hands the request to call_next.
LogRequestsBegin(method, path, now) ==
    /\ served # 0
    /\ "log_requests" \in Middleware(apps[served])
    /\ requests' = Append(requests,
            [method |-> method, path |-> path,
             pc |-> "call_next", start_time |-> now,
             endpoint |-> "", ran |-> FALSE, exception |-> "",
             response |-> NoResponse])
    /\ UNCHANGED <<settingVars, apps, sys_modules, served, log>>

\* await call_next(request): the rest of the stack runs; `kind` is what the
\* router's endpoint makes of the request once it reads it.  When
\* validation_exception_handler takes the exception it logs at error level
\* before it returns its response.
CallNext(r, kind) ==
    /\ r \in DOMAIN requests
    /\ requests[r].pc = "call_next"
    /\ LET req == requests[r]
           down == Downstream(apps[served], req.method, req.path, kind)
       IN  /\ requests' = [requests EXCEPT
                  ![r].pc = IF down.raised = "" THEN "returned" ELSE "raised",
                  ![r].endpoint = down.endpoint,
                  ![r].ran = down.ran,
                  ![r].exception = down.exception,
                  ![r].response = down.response]
           /\ log' = IF down.handler = "validation_exception_handler"
                     THEN Append(log,
                            [level |-> "ERROR", logger |-> "root", rid |-> r,
                             message |-> [text |-> <<"RequestValidationError:">>
                                                   \o down.response.body]])
                     ELSE log
    /\ UNCHANGED <<settingVars, apps, sys_modules, served>>

\* A plausible slip: the status of the record not taken from the response.
LogRequestsEndWrongStatus(r, now) ==
    /\ r \in DOMAIN requests
    /\ requests[r].pc = "returned"
    /\ log' = Append(log,
          [level |-> "INFO", logger |-> "app", rid |-> r,
           message |-> [method |-> requests[r].method,
                        path |-> requests[r].path,
                        status |-> 200,
                        took |-> now - requests[r].start_time]])
    /\ requests' = [requests EXCEPT ![r].pc = "sent", ![r].start_time = 0]
    /\ UNCHANGED <<settingVars, apps, sys_modules, served>>

\* log_requests after its await: the clock is read again, one record is
\* logged at info level, and the response goes back unchanged.  The
\* activation ends here, and start_time with it.
LogRequestsEnd(r, now) ==
    /\ r \in DOMAIN requests
    /\ requests[r].pc = "returned"
    /\ log' = Append(log,
          [level |-> "INFO", logger |-> "app", rid |-> r,
           message |-> [method |-> requests[r].method,
                        path |-> requests[r].path,
                        status |-> requests[r].response.status,
                        took |-> now - requests[r].start_time]])
    /\ requests' = [requests EXCEPT ![r].pc = "sent", ![r].start_time = 0]
    /\ UNCHANGED <<settingVars, apps, sys_modules, served>>

\* call_next raised: the exception leaves log_requests at the await, so the
\* lines after it do not run; the framework's outermost layer answers 500.
LogRequestsRaise(r) ==
    /\ r \in DOMAIN requests
    /\ requests[r].pc = "raised"
    /\ requests' = [requests EXCEPT
          ![r].pc = "sent",
          ![r].start_time = 0,
          ![r].response = InternalServerError]
    /\ UNCHANGED <<settingVars, apps, sys_modules, served, log>>

\* Every request of Methods x Paths, up to MaxRequests of them.
Next ==
    \/ LambdaStart
    \/ MainStart
    \/ /\ Len(requests) < MaxRequests
       /\ \E method \in Methods, path \in Paths, now \in Times :
             LogRequestsBegin(method, path, now)
    \/ \E r \in DOMAIN requests, kind \in Kinds : CallNext(r, kind)
    \/ \E r \in DOMAIN requests, now \in Times : LogRequestsEnd(r, now)
    \/ \E r \in DOMAIN requests : LogRequestsRaise(r)

Spec == Init /\ [][Next]_vars

\* Requests the concurrent specification draws: the probe, and one endpoint
\* of each router group under one of its prefixes.
ConcurrentRequests ==
    { <<"GET", <<"health">>>>,
      <<"POST", <<"embeddings">>>>,
      <<"POST", API_ROUTE_PREFIX \o <<"chat", "completions">>>> }

\* Up to MaxConcurrent requests in flight at once, in every interleaving of
\* their steps; the clock stands still.
NextConcurrent ==
    \/ LambdaStart
    \/ MainStart
    \/ /\ Len(requests) < MaxConcurrent
       /\ \E input \in ConcurrentRequests :
             LogRequestsBegin(input[1], input[2], 0)
    \/ \E r \in DOMAIN requests, kind \in Kinds : CallNext(r, kind)
    \/ \E r \in DOMAIN requests : LogRequestsEnd(r, 0)
    \/ \E r \in DOMAIN requests : LogRequestsRaise(r)

SpecConcurrent == Init /\ [][NextConcurrent]_vars

(***************************************************************************)
(* Claims about api/setting.py, checked under SpecSetting.                 *)
(***************************************************************************)
\* C5 as stated: for AWS_REGION, DEFAULT_MODEL and DEFAULT_EMBEDDING_MODEL, a
\* variable that is absent or set to the empty string resolves to the
\* documented default, and a non-empty value resolves to itself.
C5_EmptyOrAbsentGivesDefault ==
    SettingLoaded =>
        \A key \in StringSettings :
            IF key \notin DOMAIN environ \/ environ[key] = <<>>
            THEN setting[key] = GetDefault(key)
            ELSE setting[key] = environ[key]

\* C5 amended: an absent variable resolves to the documented default; a
\* variable that is set resolves to its value verbatim, the empty string
\* included; and the import of the settings can always be carried out.
C5_AbsentGivesDefaultSetGivesValue ==
    /\ ~SettingLoaded => ENABLED ImportSetting
    /\ SettingLoaded =>
        \A key \in StringSettings :
            IF key \notin DOMAIN environ
            THEN setting[key] = GetDefault(key)
            ELSE setting[key] = environ[key]

\* DEFAULT_MODEL was set to the empty string and the settings were resolved.
C5_Witness ==
    /\ SettingLoaded
    /\ "DEFAULT_MODEL" \in DOMAIN environ
    /\ environ["DEFAULT_MODEL"] = <<>>
    /\ setting["DEFAULT_MODEL"] = <<>>
    /\ setting["AWS_REGION"] = AWS_REGION_default

\* C6 as stated: the debug flag is false when DEBUG is absent, when it is
\* empty and when its lowercased value is "false"; it is true otherwise.
C6_EmptyDebugIsFalse ==
    SettingLoaded =>
        (setting["DEBUG"] <=>
            ~(\/ "DEBUG" \notin DOMAIN environ
              \/ environ["DEBUG"] = <<>>
              \/ Lower(environ["DEBUG"]) = FalseLiteral))

\* C6 amended: the debug flag is false exactly when DEBUG is absent or its
\* lowercased value is "false"; it is true for every other value, the empty
\* string included, and no value is rejected.
C6_DebugFalseIffAbsentOrFalse ==
    /\ ~SettingLoaded => ENABLED ImportSetting
    /\ SettingLoaded =>
        /\ setting["DEBUG"] \in BOOLEAN
        /\ setting["DEBUG"] <=>
              ~(\/ "DEBUG" \notin DOMAIN environ
                \/ /\ Len(environ["DEBUG"]) = 5
                   /\ environ["DEBUG"][1] \in {"f", "F"}
                   /\ environ["DEBUG"][2] \in {"a", "A"}
                   /\ environ["DEBUG"][3] \in {"l", "L"}
                   /\ environ["DEBUG"][4] \in {"s", "S"}
                   /\ environ["DEBUG"][5] \in {"e", "E"})

\* DEBUG was set to "FALSE" and the flag resolved to false.
C6_Witness ==
    /\ SettingLoaded
    /\ "DEBUG" \in DOMAIN environ
    /\ environ["DEBUG"] = <<"F", "A", "L", "S", "E">>
    /\ setting["DEBUG"] = FALSE

(***************************************************************************)
(* Claims about app.py.                                                    *)
(***************************************************************************)
RecordsOf(r) == SelectSeq(log, LAMBDA rec : rec.rid = r)

InfoOf(r) == SelectSeq(log, LAMBDA rec : rec.rid = r /\ rec.level = "INFO")

ErrorsOf(r) == SelectSeq(log, LAMBDA rec : rec.rid = r /\ rec.level = "ERROR")

\* The requests call_next has come back for, with a response or an exception.
Dispatched == {r \in DOMAIN requests : requests[r].pc # "call_next"}

\* The requests answered through log_requests: a response came back from
\* call_next and has been returned.
Completed ==
    {r \in DOMAIN requests :
        requests[r].pc = "sent" /\ requests[r].exception # "Exception"}

ChatSubPath == <<"chat", "completions">>

EmbeddingsSubPath == <<"embeddings">>

RoutePaths(app, endpoint) ==
    {app.routes[i].path :
        i \in {j \in 1..Len(app.routes) : app.routes[j].endpoint = endpoint}}

Recorded(r, down) ==
    /\ requests[r].endpoint = down.endpoint
    /\ requests[r].ran = down.ran
    /\ requests[r].exception = down.exception
    /\ requests[r].response = down.response

EmbeddingsPaths ==
    {EmbeddingsSubPath, API_ROUTE_PREFIX \o EmbeddingsSubPath,
     AZURE_API_ROUTE_PREFIX \o EmbeddingsSubPath}

\* C2: the embeddings routes are bound at the bare root, under the versioned
\* prefix and under the Azure-style prefix, and nowhere else; a request for
\* the embeddings sub-path under any of the three is routed to the embeddings
\* endpoint, and whatever call_next came back with for it (handler run or
\* not, exception, status, body), it comes back with the same for the same
\* request under each of the other two.
C2_EmbeddingsSameUnderThreePrefixes ==
    served # 0 =>
        /\ RoutePaths(apps[served], "embeddings") = EmbeddingsPaths
        /\ \A r \in Dispatched :
              requests[r].path \in EmbeddingsPaths =>
                 /\ requests[r].endpoint = "embeddings"
                 /\ requests[r].pc \in {"returned", "raised"} =>
                       \A kind \in Kinds :
                          Recorded(r, Downstream(apps[served], requests[r].method,
                                                 requests[r].path, kind))
                          => \A other \in EmbeddingsPaths \ {requests[r].path} :
                                Recorded(r, Downstream(apps[served],
                                            requests[r].method, other, kind))

\* An embeddings request under the Azure-style prefix was answered by the
\* embeddings handler.
C2_Witness ==
    \E r \in DOMAIN requests :
        /\ requests[r].pc = "sent"
        /\ requests[r].path = AZURE_API_ROUTE_PREFIX \o EmbeddingsSubPath
        /\ requests[r].endpoint = "embeddings"
        /\ requests[r].ran
        /\ requests[r].response.status = 200

\* C3 as stated: every completed request has exactly one log record, which
\* holds its method, its path, the status returned and a non-negative
\* elapsed time.
C3_ExactlyOneLogRecord ==
    \A r \in Completed :
        /\ Len(RecordsOf(r)) = 1
        /\ RecordsOf(r)[1].level = "INFO"
        /\ RecordsOf(r)[1].message.method = requests[r].method
        /\ RecordsOf(r)[1].message.path = requests[r].path
        /\ RecordsOf(r)[1].message.status = requests[r].response.status
        /\ RecordsOf(r)[1].message.took >= 0

\* C3 amended: every completed request has exactly one record of
\* log_requests, at info level, which holds its method, its path, the status
\* returned and an elapsed time, the difference of two readings of the wall
\* clock (negative when the clock was set back in between); a request that
\* failed validation has
\* one more record, the error-level one of validation_exception_handler, and
\* no other request has any other record.
C3_OneRequestRecord ==
    \A r \in Completed :
        /\ Len(InfoOf(r)) = 1
        /\ InfoOf(r)[1].message.method = requests[r].method
        /\ InfoOf(r)[1].message.path = requests[r].path
        /\ InfoOf(r)[1].message.status = requests[r].response.status
        /\ InfoOf(r)[1].message.took \in -MaxTime..MaxTime
        /\ Len(ErrorsOf(r)) =
              IF requests[r].exception = "RequestValidationError" THEN 1 ELSE 0
        /\ Len(RecordsOf(r)) = Len(InfoOf(r)) + Len(ErrorsOf(r))

\* A request that failed validation was answered 400 and has two records; its
\* request record holds a negative elapsed time.
C3_Witness ==
    \E r \in Completed :
        /\ requests[r].exception = "RequestValidationError"
        /\ requests[r].response.status = 400
        /\ Len(RecordsOf(r)) = 2
        /\ InfoOf(r)[1].message.status = 400
        /\ InfoOf(r)[1].message.took < 0

\* C4: a request whose body fails schema validation on a chat or embeddings
\* endpoint does not run the handler, gets status 400 with a non-empty
\* plain-text body that is the stringified failure detail, and its failure is
\* logged at error level before the response is returned (so before the
\* request record); an exception that is not a validation failure logs no
\* such record and gets no 400 plain-text response.
C4_ValidationFailureIs400PlainText ==
    \A r \in Dispatched :
        /\ requests[r].exception = "RequestValidationError" =>
              /\ requests[r].endpoint \in BodyEndpoints
              /\ ~requests[r].ran
              /\ requests[r].pc # "raised"
              /\ requests[r].response.status = 400
              /\ requests[r].response.media = "text/plain"
              /\ requests[r].response.body # <<>>
              /\ requests[r].response.body
                    = <<"[">> \o ValidationErrors(requests[r].endpoint) \o <<"]">>
              /\ Len(ErrorsOf(r)) = 1
              /\ RecordsOf(r)[1].level = "ERROR"
        /\ requests[r].exception \in {"HTTPException", "Exception"} =>
              /\ Len(ErrorsOf(r)) = 0
              /\ ~(/\ requests[r].response.status = 400
                   /\ requests[r].response.media = "text/plain")

\* A malformed chat request was answered 400 in plain text, after the error
\* record and the request record were written in that order.
C4_Witness ==
    \E r \in DOMAIN requests :
        /\ requests[r].pc = "sent"
        /\ requests[r].endpoint = "chat"
        /\ requests[r].exception = "RequestValidationError"
        /\ requests[r].response.status = 400
        /\ requests[r].response.media = "text/plain"
        /\ Len(RecordsOf(r)) = 2
        /\ RecordsOf(r)[1].level = "ERROR"
        /\ RecordsOf(r)[2].level = "INFO"

\* C7 as stated: there is one application object, whichever entry point
\* started the process: every loaded module's app and Mangum handler are the
\* instance that serves, and no second instance was ever constructed.
C7_SingleApplicationInstance ==
    served # 0 =>
        /\ Len(apps) = 1
        /\ \A name \in DOMAIN sys_modules :
              /\ sys_modules[name].app = served
              /\ sys_modules[name].handler = served

\* C8: log_requests writes its record only after call_next has come back with
\* a response: a request that is still with call_next has no record, and a
\* request whose call_next raised has no record of log_requests, neither then
\* nor after the exception has been answered.
C8_LogOnlyAfterHandlerReturns ==
    \A r \in DOMAIN requests :
        /\ requests[r].pc = "call_next" => Len(RecordsOf(r)) = 0
        /\ requests[r].pc = "raised" => Len(InfoOf(r)) = 0
        /\ requests[r].exception = "Exception" => Len(InfoOf(r)) = 0
        /\ Len(InfoOf(r)) > 0 => requests[r].pc = "sent"

\* A handler's fault went past log_requests: the request was answered 500 and
\* nothing was logged for it.
C8_Witness ==
    \E r \in DOMAIN requests :
        /\ requests[r].pc = "sent"
        /\ requests[r].ran
        /\ requests[r].exception = "Exception"
        /\ requests[r].response.status = 500
        /\ Len(RecordsOf(r)) = 0

\* C9: whatever the other requests in flight are doing or have ended in, a
\* GET /health is answered 200 with {"status": "OK"}; no request changes the
\* application (its middleware and its routes stay what the module built);
\* and once started the process keeps serving, whatever a request ended in.
C9_HealthAlwaysOK ==
    apps # <<>> =>
        /\ served \in 1..Len(apps)
        /\ \A i \in 1..Len(apps) :
              /\ apps[i].user_middleware = <<"log_requests", "CORSMiddleware">>
              /\ Len(apps[i].routes) = 7
        /\ \A r \in Dispatched :
              (requests[r].method = "GET" /\ requests[r].path = <<"health">>) =>
                 /\ requests[r].pc # "raised"
                 /\ requests[r].endpoint = "health"
                 /\ requests[r].response.status = 200
                 /\ requests[r].response.media = "application/json"
                 /\ requests[r].response.body = <<"{", "status", ":", "OK", "}">>

\* A GET /health that arrived while a faulted chat request and nothing else
\* was in flight has been answered 200.
C9_Witness ==
    /\ Len(requests) = 2
    /\ requests[1].exception = "Exception"
    /\ requests[1].pc = "raised"
    /\ requests[2].method = "GET"
    /\ requests[2].path = <<"health">>
    /\ requests[2].pc = "sent"
    /\ requests[2].response.status = 200

DeploymentsPrefix == <<"openai", "deployments">>

=============================================================================
